---- MODULE Spec2Model ----
(***************************************************************************)
(* Model of the Docker maintenance service                                 *)
(* (src/service/docker_maintenance_service.py): the service thread         *)
(* (SvcDoRun -> run_maintenance_tasks -> main), the stop handler (SvcStop) *)
(* running on the service-control thread, and the wall clock.              *)
(*                                                                         *)
(* Time is counted in ticks.  A tick is the resolution of datetime.now()   *)
(* scaled down: TicksPerMs ticks make one millisecond (the resolution of   *)
(* the WaitForSingleObject timeout) and MsPerHour milliseconds make one    *)
(* "hour", so that a day stays small enough to enumerate.                  *)
(***************************************************************************)
EXTENDS Integers, Sequences, FiniteSets, TLC

\* ---------------------------------------------------------------- bounds
MsPerHour == 1
TicksPerMs == 2
MaxDays == 2
MaxContainers == 1
OpCap == 2
MaxRuns == 3
QuerySeconds == 9   \* seconds a quick WslService status query takes

\* ------------------------------------------------------ program constants
HoursPerDay == 24
SchedHour == 2
max_retries == 3
initial_retry_delay == 5
timeout == 60
CmdTimeout == 30

DayTicks == HoursPerDay * MsPerHour * TicksPerMs
SchedTicks == SchedHour * MsPerHour * TicksPerMs
MaxClock == MaxDays * DayTicks

\* Times of day at which the service is started.  The clock is first read
\* after the start-up run, which takes any amount of time.
StartTimes == {0, SchedTicks}

\* ------------------------------------------------------------ vocabulary
\* What subprocess.run(cmd, timeout=30) can do: exit with code 0, exit with
\* a non-zero code, exceed the timeout (TimeoutExpired), or fail to launch
\* the program (OSError).
CmdResults == {"exit0", "nonzero", "timeout", "launch_error"}

\* External operations a run can issue and that issued counts (the status
\* queries of the wait loop are counted by polls).
Ops == {"docker_info", "count", "prune", "kill", "stop_wsl", "optimize",
        "start_wsl", "wsl_l", "launch"}

\* Positions of the service thread inside run_maintenance_tasks and the
\* helpers it calls.
RunPCs == {"rmt_enter", "pre_check", "pre_sleep", "pre_recheck",
           "count_before", "prune", "count_after", "kill",
           "stop_wsl", "get_vhd", "optimize", "start_wsl", "poll",
           "wsl_check", "post_start", "post_check", "post_start2",
           "post_check2", "rmt_done", "rmt_except",
           "sdd_enter", "sdd_while", "sdd_launch", "sdd_sleep",
           "sdd_tasklist", "sdd_info", "sdd_retry", "sdd_exit",
           "kdp_exit"}

Phases == {"none", "startup", "wait", "run", "other"}

VARIABLES
    pc,             \* position of the service thread
    is_running,     \* self.is_running
    stop_event,     \* self.stop_event is signaled
    stop_pc,        \* position of the stop handler (SvcStop)
    clock,          \* wall clock, in ticks
    now,            \* main: now
    scheduled_time, \* main: scheduled_time
    wait_ms,        \* main: int(wait_seconds * 1000)
    wait_start,     \* clock value when WaitForSingleObject was entered
    ret,            \* where the helper being executed returns to
    proc_idx,       \* kill_docker_processes: index into the name list
    attempt,        \* start_docker_desktop: attempt
    retry_delay,    \* start_docker_desktop: retry_delay
    count_before,   \* run_maintenance_tasks: container_count_before
    count_after,    \* run_maintenance_tasks: container_count_after
    removed,        \* run_maintenance_tasks: removed_containers
    vhd_left,       \* backing files still to optimize in the for loop
    poll_elapsed,   \* seconds since start_time in the WslService wait loop
    steps,          \* history: pipeline steps entered by the current run
    issued,         \* history: external operations issued by the current run
    health_ok,      \* history: check_docker_running returned True in this run
    failed_at,      \* history: operation whose failure raised in this run
    end_reason,     \* history: how the last run ended
    active,         \* history: invocations of run_maintenance_tasks in flight
    runs_started,   \* history: runs started since service start
    runs_finished,  \* history: runs that returned
    waits,          \* history: waits entered by main
    flag_phase,     \* history: what the service thread did when is_running := False
    signal_phase,   \* history: what the service thread did when SetEvent ran
    leaked,         \* history: kind of exception that left run_maintenance_tasks
    fault_logged,   \* history: SvcDoRun logged "Exception in SvcDoRun"
    sdd_calls,      \* history: calls of start_docker_desktop by the current
                    \* part (pre-flight or post-flight) of the run
    first_check,    \* history: result of the first health check of the part
    poll_exit,      \* history: why the WslService wait loop of this run ended
    sdd_launches,   \* history: ShellExecute calls of this start_docker_desktop
    launch_waits,   \* history: sleeps between a launch and its verification
    sdd_slept,      \* history: seconds slept by this start_docker_desktop
    seen,           \* history: tasklist showed Docker Desktop.exe in this call
    sdd_outcome,    \* history: how this start_docker_desktop ended
    sdd_result,     \* the value start_docker_desktop returned
    polls,          \* history: status queries of the current wait loop
    poll_sleeps,    \* history: 1 s sleeps of the current wait loop
    kill_log,       \* history: results of this kill_docker_processes
    count_failed,   \* history: the last container listing raised
    twin_pc,        \* where a second run, given other container counts but
                    \* the same command results, continues ("none": no twin)
    twin_count_before,  \* count_before of that second run
    variant,        \* command machine: whose run_command and logger it is
    cmd,            \* command machine: the command text, "none" when idle
    child,          \* command machine: how the external program behaves
    cmd_pc,         \* command machine: position inside run_command
    child_state,    \* command machine: state of the child process
    out_open,       \* command machine: the child holds its output pipe open
    cmd_clock,      \* command machine: seconds since run_command was called
    wait_from,      \* command machine: when the wait for the exit began
    sink_raises,    \* command machine: which logging sink raises
    log_result,     \* command machine: how the logger call ended
    cmd_outcome,    \* command machine: what the execution of the command did
    cmd_result,     \* command machine: how run_command ended
    cmd_msg,        \* command machine: message of the exception raised
    cdr_result,     \* command machine: value of check_docker_running
    kdp_calls       \* history: calls of kill_docker_processes by the post-flight
                    \* part of the current run

vars == <<pc, is_running, stop_event, stop_pc, clock, now, scheduled_time,
          wait_ms, wait_start, ret, proc_idx, attempt, retry_delay,
          count_before, count_after, removed, vhd_left, poll_elapsed,
          steps, issued, health_ok, failed_at, end_reason, active,
          runs_started, runs_finished, waits, flag_phase, signal_phase,
          leaked, fault_logged, sdd_calls, first_check, poll_exit,
          sdd_launches, launch_waits, sdd_slept, seen, sdd_outcome,
          sdd_result, polls, poll_sleeps, kill_log, count_failed,
          twin_pc, twin_count_before, variant, cmd, child, cmd_pc,
          child_state, out_open, cmd_clock, wait_from, sink_raises,
          log_result, cmd_outcome, cmd_result, cmd_msg, cdr_result,
          kdp_calls>>

schedVars == <<now, scheduled_time, wait_ms, wait_start>>
stopVars == <<is_running, stop_event, stop_pc, flag_phase, signal_phase>>
localVars == <<ret, proc_idx, attempt, retry_delay, count_before,
               count_after, removed, vhd_left, poll_elapsed>>
histVars == <<steps, issued, health_ok, failed_at, end_reason>>
countVars == <<active, runs_started, runs_finished, waits, fault_logged>>
runAux == <<sdd_calls, first_check, poll_exit, kdp_calls>>
sddAux == <<sdd_launches, launch_waits, sdd_slept, seen, sdd_outcome,
            sdd_result>>
callAux == <<sddAux, polls, poll_sleeps, kill_log, count_failed>>
auxVars == <<runAux, callAux>>
twinVars == <<twin_pc, twin_count_before>>
cmdVars == <<variant, cmd, child, cmd_pc, child_state, out_open, cmd_clock,
             wait_from, sink_raises, log_result, cmd_outcome, cmd_result,
             cmd_msg, cdr_result>>
serviceVars == <<pc, clock, schedVars, stopVars, localVars, histVars,
                 countVars, leaked, auxVars, twinVars>>

\* What the service thread is doing, as seen by the stop handler.
Phase ==
    IF pc = "main_blocked" THEN "wait"
    ELSE IF pc \in RunPCs THEN "run"
    ELSE IF pc \in {"svc_init", "svc_reported"} THEN "startup"
    ELSE "other"

NoOps == [o \in Ops |-> 0]
Inc(f, o) == [f EXCEPT ![o] = IF @ < OpCap THEN @ + 1 ELSE @]

\* -------------------------------------------------------- pure functions
\* ScheduledTime with "now > scheduled_time" at line 117.
ScheduledTime_gt(t) ==
    LET today == (t - (t % DayTicks)) + SchedTicks
    IN  IF t > today THEN today + DayTicks ELSE today

\* main, lines 113-119: the next wake time for the current time t.
ScheduledTime(t) ==
    LET today == (t - (t % DayTicks)) + SchedTicks
    IN  IF t >= today THEN today + DayTicks ELSE today

\* main, lines 119 and 124: int(wait_seconds * 1000), whole milliseconds.
WaitMs(t) == (ScheduledTime(t) - t) \div TicksPerMs

\* run_command, lines 306-326: raises unless the command exited with 0.
run_command(r) ==
    IF r = "timeout" THEN [raised |-> TRUE, msg |-> "Command timeout expired"]
    ELSE IF r = "launch_error" THEN [raised |-> TRUE, msg |-> "OSError"]
    ELSE IF r = "nonzero" THEN [raised |-> TRUE, msg |-> "Command failed"]
    ELSE [raised |-> FALSE, msg |-> "output"]

\* Where the run continues after the count before the prune has returned n
\* (lines 166-171) and after the count after the prune has given the
\* difference n (lines 175-184): the code has no branch on either value.
after_count_before(n) == "prune"

\* after_count_after in a pipeline that skips the kill of step 4 when the
\* prune removed nothing.
after_count_after_skip(n) == IF n = 0 THEN "stop_wsl" ELSE "kill"

\* lines 175-184.
after_count_after(n) == "kill"

\* check_docker_running that takes every command that ran to its end for a
\* running daemon, whatever the exit code.
check_docker_running_exited(r) == r \in {"exit0", "nonzero"}

\* check_docker_running, lines 134-140.
check_docker_running(r) == ~run_command(r).raised

\* get_docker_container_count without the except clause of lines 302-304
\* returning 0: the count of the listing is returned in every case.
get_docker_container_count_nozero(r, n) == n

\* get_docker_container_count, lines 288-304: n lines of output are counted
\* whatever the exit code; a timeout or launch error yields 0.
get_docker_container_count(r, n) ==
    IF r \in {"timeout", "launch_error"} THEN 0 ELSE n

\* kill_process, lines 328-336: the exit code of taskkill is not examined.
kill_process(r) == r \in {"timeout", "launch_error"}

\* ------------------------------------------------------------------ Init
\* __init__, lines 78-81, at the moment the service thread enters SvcDoRun.
InitService ==
    /\ pc = "svc_init"
    /\ is_running = TRUE
    /\ stop_event = FALSE
    /\ stop_pc = "idle"
    /\ clock \in StartTimes
    /\ now = 0
    /\ scheduled_time = 0
    /\ wait_ms = 0
    /\ wait_start = 0
    /\ ret = "none"
    /\ proc_idx = 0
    /\ attempt = 0
    /\ retry_delay = 0
    /\ count_before = 0
    /\ count_after = 0
    /\ removed = 0
    /\ vhd_left = 0
    /\ poll_elapsed = 0
    /\ steps = << >>
    /\ issued = NoOps
    /\ health_ok = FALSE
    /\ failed_at = "none"
    /\ end_reason = "none"
    /\ active = 0
    /\ runs_started = 0
    /\ runs_finished = 0
    /\ waits = 0
    /\ flag_phase = "none"
    /\ signal_phase = "none"
    /\ leaked = "none"
    /\ fault_logged = FALSE
    /\ sdd_calls = 0
    /\ kdp_calls = 0
    /\ first_check = "none"
    /\ poll_exit = "none"
    /\ sdd_launches = 0
    /\ launch_waits = << >>
    /\ sdd_slept = 0
    /\ seen = FALSE
    /\ sdd_outcome = "none"
    /\ sdd_result = "unset"
    /\ polls = 0
    /\ poll_sleeps = 0
    /\ kill_log = << >>
    /\ count_failed = FALSE
    /\ twin_pc = "none"
    /\ twin_count_before = 0

\* No command is being executed apart from those of the pipeline, which are
\* modelled by their results.
CmdIdle ==
    /\ variant = "service"
    /\ cmd = "none"
    /\ child = "none"
    /\ cmd_pc = "idle"
    /\ child_state = "none"
    /\ out_open = FALSE
    /\ cmd_clock = 0
    /\ wait_from = 0
    /\ sink_raises = "none"
    /\ log_result = "none"
    /\ cmd_outcome = "none"
    /\ cmd_result = "none"
    /\ cmd_msg = << >>
    /\ cdr_result = "none"

Init == InitService /\ CmdIdle

\* ------------------------------------------------------------ wall clock
\* Time passes.  The clock is read only by main (datetime.now() and the
\* wait timeout), so the time a pipeline run takes is let pass between the
\* return of the run and line 113; a wait whose timeout has elapsed returns
\* before more time passes.
Tick ==
    /\ clock < MaxClock
    /\ \/ pc = "main_compute"
       \/ /\ pc = "main_blocked"
          /\ clock - wait_start < wait_ms * TicksPerMs
    /\ clock' = clock + 1
    /\ UNCHANGED <<pc, schedVars, stopVars, localVars, histVars, countVars,
                   leaked,
                   auxVars,
                   twinVars, cmdVars>>

\* ---------------------------------------------------------- stop handler
\* SvcStop, line 87.  The service control manager delivers the stop control
\* once, and only to a service that has reported SERVICE_RUNNING.
SvcStop_pending ==
    /\ stop_pc = "idle"
    /\ pc \notin {"svc_init", "svc_done", "svc_raised"}
    /\ stop_pc' = "pending"
    /\ UNCHANGED <<pc, is_running, stop_event, flag_phase, signal_phase,
                   clock, schedVars, localVars, histVars, countVars, leaked,
                   auxVars,
                   twinVars, cmdVars>>

\* SvcStop, line 88.
SvcStop_flag ==
    /\ stop_pc = "pending"
    /\ is_running' = FALSE
    /\ flag_phase' = Phase
    /\ stop_pc' = "flagged"
    /\ UNCHANGED <<pc, stop_event, signal_phase, clock, schedVars, localVars,
                   histVars, countVars, leaked,
                   auxVars,
                   twinVars, cmdVars>>

\* SvcStop_SetEvent in a handler that also runs the maintenance itself.
SvcStop_SetEvent_runs ==
    /\ stop_pc = "flagged"
    /\ stop_event' = TRUE
    /\ signal_phase' = Phase
    /\ stop_pc' = "signaled"
    /\ active' = active + 1
    /\ runs_started' = runs_started + 1
    /\ UNCHANGED <<pc, is_running, flag_phase, clock, schedVars, localVars,
                   histVars, runs_finished, waits, leaked, fault_logged,
                   auxVars,
                   twinVars, cmdVars>>

\* SvcStop, lines 89-90.
SvcStop_SetEvent ==
    /\ stop_pc = "flagged"
    /\ stop_event' = TRUE
    /\ signal_phase' = Phase
    /\ stop_pc' = "signaled"
    /\ UNCHANGED <<pc, is_running, flag_phase, clock, schedVars, localVars,
                   histVars, countVars, leaked,
                   auxVars,
                   twinVars, cmdVars>>

\* ------------------------------------------------------------- scheduler
\* The call of run_maintenance_tasks (lines 105 and 131).
StartRun ==
    /\ runs_started < MaxRuns
    /\ pc' = "rmt_enter"
    /\ active' = active + 1
    /\ runs_started' = runs_started + 1
    /\ steps' = << >>
    /\ issued' = NoOps
    /\ health_ok' = FALSE
    /\ failed_at' = "none"
    /\ end_reason' = "none"
    /\ sdd_calls' = 0
    /\ kdp_calls' = 0
    /\ first_check' = "none"
    /\ poll_exit' = "none"

\* SvcDoRun, lines 93-97: up to ReportServiceStatus(SERVICE_RUNNING).
SvcDoRun_report ==
    /\ pc = "svc_init"
    /\ pc' = "svc_reported"
    /\ UNCHANGED <<clock, schedVars, stopVars, localVars, histVars,
                   countVars, leaked,
                   auxVars,
                   twinVars, cmdVars>>

\* SvcDoRun_run without line 105: SvcDoRun goes straight to main.
SvcDoRun_run_skip ==
    /\ pc = "svc_reported"
    /\ pc' = IF is_running THEN "main_compute" ELSE "main_exit"
    /\ UNCHANGED <<clock, schedVars, stopVars, localVars, histVars,
                   countVars, leaked,
                   auxVars,
                   twinVars, cmdVars>>

\* SvcDoRun, lines 99-105: the immediate run.
SvcDoRun_run ==
    /\ pc = "svc_reported"
    /\ StartRun
    /\ UNCHANGED <<clock, schedVars, stopVars, localVars, runs_finished,
                   waits, leaked, fault_logged,
                   callAux,
                   twinVars, cmdVars>>

\* SvcDoRun line 106 / main line 112: the loop condition, evaluated after a
\* run has returned.
main_while ==
    /\ pc = "rmt_returned"
    /\ pc' = IF is_running THEN "main_compute" ELSE "main_exit"
    /\ steps' = << >>
    /\ issued' = NoOps
    /\ health_ok' = FALSE
    /\ failed_at' = "none"
    /\ end_reason' = "none"
    /\ sdd_calls' = 0
    /\ kdp_calls' = 0
    /\ first_check' = "none"
    /\ poll_exit' = "none"
    /\ UNCHANGED <<clock, schedVars, stopVars, localVars, countVars, leaked,
                   callAux,
                   twinVars, cmdVars>>

\* main, lines 113-125: compute the wake time and enter the wait.
main_compute ==
    /\ pc = "main_compute"
    /\ now' = clock
    /\ scheduled_time' = ScheduledTime(clock)
    /\ wait_ms' = WaitMs(clock)
    /\ wait_start' = clock
    /\ waits' = waits + 1
    /\ pc' = "main_blocked"
    /\ UNCHANGED <<clock, stopVars, localVars, histVars, active,
                   runs_started, runs_finished, leaked, fault_logged,
                   auxVars,
                   twinVars, cmdVars>>

\* main_signaled without the break of lines 126-127.
main_signaled_nobreak ==
    /\ pc = "main_blocked"
    /\ stop_event
    /\ stop_event' = FALSE
    /\ StartRun
    /\ UNCHANGED <<is_running, stop_pc, flag_phase, signal_phase, clock,
                   schedVars, localVars, runs_finished, waits, leaked,
                   fault_logged,
                   callAux,
                   twinVars, cmdVars>>

\* main_signaled with the wait entered again instead of the break.
main_signaled_rewait ==
    /\ pc = "main_blocked"
    /\ stop_event
    /\ stop_event' = FALSE
    /\ pc' = "main_compute"
    /\ UNCHANGED <<is_running, stop_pc, flag_phase, signal_phase, clock,
                   schedVars, localVars, histVars, countVars, leaked,
                   auxVars,
                   twinVars, cmdVars>>

\* WaitForSingleObject returned WAIT_OBJECT_0 (the auto-reset event is
\* consumed): lines 126-127, break.
main_signaled ==
    /\ pc = "main_blocked"
    /\ stop_event
    /\ stop_event' = FALSE
    /\ pc' = "main_exit"
    /\ UNCHANGED <<is_running, stop_pc, flag_phase, signal_phase, clock,
                   schedVars, localVars, histVars, countVars, leaked,
                   auxVars,
                   twinVars, cmdVars>>

\* WaitForSingleObject returned WAIT_TIMEOUT: lines 128-131.
main_timeout ==
    /\ pc = "main_blocked"
    /\ ~stop_event
    /\ clock - wait_start >= wait_ms * TicksPerMs
    /\ StartRun
    /\ now' = 0             \* recomputed by the next iteration
    /\ wait_ms' = 0
    /\ wait_start' = 0
    /\ UNCHANGED <<clock, scheduled_time, stopVars, localVars,
                   runs_finished, waits, leaked, fault_logged,
                   callAux,
                   twinVars, cmdVars>>

\* main, line 132, and the return of SvcDoRun.
main_exit ==
    /\ pc = "main_exit"
    /\ pc' = "svc_done"
    /\ now' = 0
    /\ scheduled_time' = 0
    /\ wait_ms' = 0
    /\ wait_start' = 0
    /\ UNCHANGED <<clock, stopVars, localVars, histVars, countVars, leaked,
                   auxVars,
                   twinVars, cmdVars>>

\* -------------------------------------------------- run_maintenance_tasks
\* An exception raised inside the try block (lines 143-274) by operation o.
Raise(o) ==
    /\ pc' = "rmt_except"
    /\ failed_at' = o

\* run_maintenance_tasks returns to its caller; its locals die.
Return(reason) ==
    /\ pc' = "rmt_returned"
    /\ end_reason' = reason
    /\ active' = active - 1
    /\ runs_finished' = runs_finished + 1
    /\ ret' = "none"
    /\ proc_idx' = 0
    /\ attempt' = 0
    /\ retry_delay' = 0
    /\ count_before' = 0
    /\ count_after' = 0
    /\ removed' = 0
    /\ vhd_left' = 0
    /\ poll_elapsed' = 0
    /\ sdd_launches' = 0
    /\ launch_waits' = << >>
    /\ sdd_slept' = 0
    /\ seen' = FALSE
    /\ sdd_outcome' = "none"
    /\ sdd_result' = "unset"
    /\ polls' = 0
    /\ poll_sleeps' = 0
    /\ kill_log' = << >>
    /\ count_failed' = FALSE
    /\ twin_pc' = "none"
    /\ twin_count_before' = 0

\* lines 144-147.
rmt_enter ==
    /\ pc = "rmt_enter"
    /\ pc' = "pre_check"
    /\ UNCHANGED <<clock, schedVars, stopVars, localVars, histVars,
                   countVars, leaked,
                   auxVars,
                   twinVars, cmdVars>>

\* rmt_pre_check in a pipeline that launches Docker Desktop whatever the
\* health check says.
rmt_pre_check_always ==
    /\ pc = "pre_check"
    /\ \E r \in CmdResults :
          /\ steps' = Append(steps, 1)
          /\ issued' = Inc(issued, "docker_info")
          /\ health_ok' = check_docker_running(r)
          /\ first_check' = IF check_docker_running(r) THEN "ok" ELSE "failed"
    /\ pc' = "sdd_enter"
    /\ ret' = "pre_sleep"
    /\ sdd_calls' = sdd_calls + 1
    /\ UNCHANGED <<clock, schedVars, stopVars, proc_idx, attempt,
                   retry_delay, count_before, count_after, removed,
                   vhd_left, poll_elapsed, failed_at, end_reason,
                   countVars, leaked, poll_exit, kdp_calls, callAux,
                   twinVars, cmdVars>>

\* lines 148-155: step 1, the pre-flight health check.
rmt_pre_check ==
    /\ pc = "pre_check"
    /\ \E r \in CmdResults :
          /\ steps' = Append(steps, 1)
          /\ issued' = Inc(issued, "docker_info")
          /\ IF check_docker_running(r)
             THEN /\ health_ok' = TRUE
                  /\ pc' = "count_before"
                  /\ ret' = ret
                  /\ first_check' = "ok"
                  /\ sdd_calls' = sdd_calls
             ELSE /\ health_ok' = health_ok
                  /\ pc' = "sdd_enter"
                  /\ ret' = "pre_sleep"
                  /\ first_check' = "failed"
                  /\ sdd_calls' = sdd_calls + 1
    /\ UNCHANGED <<clock, schedVars, stopVars, proc_idx, attempt,
                   retry_delay, count_before, count_after, removed,
                   vhd_left, poll_elapsed, failed_at, end_reason,
                   countVars, leaked,
                   poll_exit, kdp_calls, callAux,
                   twinVars, cmdVars>>

\* lines 156-157: time.sleep(60).
rmt_pre_sleep ==
    /\ pc = "pre_sleep"
    /\ pc' = "pre_recheck"
    /\ UNCHANGED <<clock, schedVars, stopVars, localVars, histVars,
                   countVars, leaked,
                   auxVars,
                   twinVars, cmdVars>>

\* rmt_pre_recheck without the return of line 162.
rmt_pre_recheck_continue ==
    /\ pc = "pre_recheck"
    /\ \E r \in CmdResults :
          /\ issued' = Inc(issued, "docker_info")
          /\ health_ok' = (health_ok \/ check_docker_running(r))
    /\ pc' = "count_before"
    /\ UNCHANGED <<clock, schedVars, stopVars, localVars, steps, failed_at,
                   end_reason, countVars, leaked,
                   auxVars,
                   twinVars, cmdVars>>

\* lines 158-164: the second health check; return when it fails.
rmt_pre_recheck ==
    /\ pc = "pre_recheck"
    /\ \E r \in CmdResults :
          /\ issued' = Inc(issued, "docker_info")
          /\ IF check_docker_running(r)
             THEN /\ health_ok' = TRUE
                  /\ pc' = "count_before"
                  /\ UNCHANGED <<localVars, end_reason, active,
                                 runs_finished, callAux, twinVars>>
             ELSE /\ health_ok' = health_ok
                  /\ Return("preflight")
    /\ UNCHANGED <<clock, schedVars, stopVars, steps, failed_at,
                   runs_started, waits, leaked, fault_logged,
                   runAux,
                   cmdVars>>

\* rmt_count_before in a pipeline that checks is_running between steps and
\* gives up when a stop was requested.
rmt_count_before_abort ==
    /\ pc = "count_before"
    /\ IF is_running
       THEN /\ \E r \in CmdResults, n \in 0 .. MaxContainers :
                  /\ count_before' = get_docker_container_count(r, n)
                  /\ count_failed' = (r \in {"timeout", "launch_error"})
                  /\ pc' = after_count_before(count_before')
                  /\ \E n2 \in 0 .. MaxContainers :
                        /\ twin_count_before' = n2
                        /\ twin_pc' = after_count_before(n2)
            /\ steps' = Append(steps, 2)
            /\ issued' = Inc(issued, "count")
            /\ UNCHANGED <<ret, proc_idx, attempt, retry_delay, count_after,
                           removed, vhd_left, poll_elapsed, end_reason,
                           active, runs_finished, sddAux, polls,
                           poll_sleeps, kill_log>>
       ELSE /\ Return("stopped")
            /\ UNCHANGED <<steps, issued>>
    /\ sdd_calls' = 0
    /\ kdp_calls' = 0
    /\ first_check' = "none"
    /\ UNCHANGED <<clock, schedVars, stopVars, health_ok, failed_at,
                   runs_started, waits, leaked, fault_logged, poll_exit,
                   cmdVars>>

\* lines 166-170: step 2.
rmt_count_before ==
    /\ pc = "count_before"
    /\ \E r \in CmdResults, n \in 0 .. MaxContainers :
          /\ count_before' = get_docker_container_count(r, n)
          /\ count_failed' = (r \in {"timeout", "launch_error"})
          /\ pc' = after_count_before(count_before')
          /\ \E n2 \in 0 .. MaxContainers :
                /\ twin_count_before' = n2
                /\ twin_pc' = after_count_before(n2)
    /\ steps' = Append(steps, 2)
    /\ issued' = Inc(issued, "count")
    /\ sdd_calls' = 0        \* the pre-flight part is over
    /\ kdp_calls' = 0
    /\ first_check' = "none"
    /\ UNCHANGED <<clock, schedVars, stopVars, ret, proc_idx, attempt,
                   retry_delay, count_after, removed, vhd_left,
                   poll_elapsed, health_ok, failed_at, end_reason,
                   countVars, leaked,
                   poll_exit, sddAux, polls,
                   poll_sleeps, kill_log,
                   cmdVars>>

\* rmt_prune with the failure of the command logged and swallowed.
rmt_prune_swallow ==
    /\ pc = "prune"
    /\ steps' = Append(steps, 3)
    /\ issued' = Inc(issued, "prune")
    /\ \E r \in CmdResults :
          /\ pc' = "count_after"
          /\ failed_at' = IF run_command(r).raised THEN "prune" ELSE failed_at
    /\ count_failed' = FALSE
    /\ twin_pc' = pc'      \* the prune does not read the count
    /\ UNCHANGED <<clock, schedVars, stopVars, localVars, health_ok,
                   end_reason, countVars, leaked,
                   runAux, sddAux, polls, poll_sleeps,
                   kill_log,
                   twin_count_before, cmdVars>>

\* lines 171-174: step 3, the prune command.
rmt_prune ==
    /\ pc = "prune"
    /\ steps' = Append(steps, 3)
    /\ issued' = Inc(issued, "prune")
    /\ \E r \in CmdResults :
          IF run_command(r).raised
          THEN Raise("prune")
          ELSE pc' = "count_after" /\ failed_at' = failed_at
    /\ count_failed' = FALSE
    /\ twin_pc' = pc'      \* the prune does not read the count
    /\ UNCHANGED <<clock, schedVars, stopVars, localVars, health_ok,
                   end_reason, countVars, leaked,
                   runAux, sddAux, polls, poll_sleeps,
                   kill_log,
                   twin_count_before, cmdVars>>

\* rmt_count_after in a pipeline without step 5: kill_docker_processes
\* returns to the optimization.
rmt_count_after_nostop ==
    /\ pc = "count_after"
    /\ \E r \in CmdResults, n \in 0 .. MaxContainers :
          /\ count_after' = get_docker_container_count(r, n)
          /\ removed' = count_before - count_after'
          /\ count_failed' = (r \in {"timeout", "launch_error"})
          /\ pc' = after_count_after(removed')
          /\ \E n2 \in 0 .. MaxContainers :
                twin_pc' = after_count_after(twin_count_before - n2)
    /\ issued' = Inc(issued, "count")
    /\ twin_count_before' = 0
    /\ ret' = "get_vhd"
    /\ proc_idx' = 1
    /\ UNCHANGED <<clock, schedVars, stopVars, attempt, retry_delay,
                   count_before, vhd_left, poll_elapsed, steps, health_ok,
                   failed_at, end_reason, countVars, leaked, runAux, sddAux,
                   polls, poll_sleeps, kill_log,
                   cmdVars>>

\* lines 175-183: the count after prune and the logged difference.
rmt_count_after ==
    /\ pc = "count_after"
    /\ \E r \in CmdResults, n \in 0 .. MaxContainers :
          /\ count_after' = get_docker_container_count(r, n)
          /\ removed' = count_before - count_after'
          /\ count_failed' = (r \in {"timeout", "launch_error"})
          /\ pc' = after_count_after(removed')
          /\ \E n2 \in 0 .. MaxContainers :
                twin_pc' = after_count_after(twin_count_before - n2)
    /\ issued' = Inc(issued, "count")
    /\ twin_count_before' = 0
    /\ ret' = "stop_wsl"
    /\ proc_idx' = 1
    /\ UNCHANGED <<clock, schedVars, stopVars, attempt, retry_delay,
                   count_before, vhd_left, poll_elapsed, steps, health_ok,
                   failed_at, end_reason, countVars, leaked,
                   runAux, sddAux, polls, poll_sleeps,
                   kill_log,
                   cmdVars>>

\* kill_docker_processes with one try around the whole loop: the first
\* exception of kill_process ends the loop.
kill_docker_processes_one_try ==
    /\ pc = "kill"
    /\ \E r \in CmdResults :
          /\ issued' = Inc(issued, "kill")
          /\ kill_log' = Append(kill_log, kill_process(r))
          /\ IF proc_idx < 2 /\ ~kill_process(r)
             THEN /\ proc_idx' = proc_idx + 1
                  /\ pc' = pc
                  /\ ret' = ret
             ELSE /\ proc_idx' = 0
                  /\ pc' = "kdp_exit"
                  /\ ret' = ret
    /\ steps' = IF ret = "stop_wsl" /\ proc_idx = 1
                THEN Append(steps, 4) ELSE steps
    /\ count_before' = 0
    /\ count_after' = 0
    /\ removed' = 0
    /\ count_failed' = FALSE
    /\ twin_pc' = "none"
    /\ UNCHANGED <<clock, schedVars, stopVars, attempt, retry_delay,
                   vhd_left, poll_elapsed, health_ok, failed_at, end_reason,
                   countVars, leaked, runAux, sddAux, polls, poll_sleeps,
                   twin_count_before, cmdVars>>

\* kill_docker_processes, lines 278-286: one iteration of the loop over
\* ["docker.exe", "Docker Desktop.exe"]; an exception of kill_process is
\* caught and logged.  Called at line 184 (step 4) and at line 263.
kill_docker_processes ==
    /\ pc = "kill"
    /\ \E r \in CmdResults :
          /\ issued' = Inc(issued, "kill")
          /\ kill_log' = Append(kill_log, kill_process(r))
    /\ steps' = IF ret = "stop_wsl" /\ proc_idx = 1
                THEN Append(steps, 4) ELSE steps
    /\ IF proc_idx < 2
       THEN /\ proc_idx' = proc_idx + 1
            /\ pc' = pc
            /\ ret' = ret
       ELSE /\ proc_idx' = 0
            /\ pc' = "kdp_exit"
            /\ ret' = ret
    /\ count_before' = 0   \* the counts are not read after line 183
    /\ count_after' = 0
    /\ removed' = 0
    /\ count_failed' = FALSE
    /\ twin_pc' = "none"
    /\ UNCHANGED <<clock, schedVars, stopVars, attempt, retry_delay,
                   vhd_left, poll_elapsed, health_ok, failed_at, end_reason,
                   countVars, leaked,
                   runAux, sddAux, polls, poll_sleeps,
                   twin_count_before, cmdVars>>

\* kill_docker_processes returns to its caller.
kdp_return ==
    /\ pc = "kdp_exit"
    /\ pc' = ret
    /\ ret' = "none"
    /\ kill_log' = << >>
    /\ UNCHANGED <<clock, schedVars, stopVars, proc_idx, attempt,
                   retry_delay, count_before, count_after, removed,
                   vhd_left, poll_elapsed, histVars, countVars, leaked,
                   runAux, sddAux, polls, poll_sleeps, count_failed,
                   twinVars, cmdVars>>

\* rmt_stop_wsl with the failure of the command logged and swallowed, as
\* src/old/docker_maintenance_service.py does for "wsl --shutdown".
rmt_stop_wsl_swallow ==
    /\ pc = "stop_wsl"
    /\ steps' = Append(steps, 5)
    /\ issued' = Inc(issued, "stop_wsl")
    /\ \E r \in CmdResults :
          /\ pc' = "get_vhd"
          /\ failed_at' = IF run_command(r).raised
                          THEN "stop_wsl" ELSE failed_at
    /\ UNCHANGED <<clock, schedVars, stopVars, localVars, health_ok,
                   end_reason, countVars, leaked,
                   auxVars,
                   twinVars, cmdVars>>

\* lines 186-189: step 5, Stop-Service WslService -Force.
rmt_stop_wsl ==
    /\ pc = "stop_wsl"
    /\ steps' = Append(steps, 5)
    /\ issued' = Inc(issued, "stop_wsl")
    /\ \E r \in CmdResults :
          IF run_command(r).raised
          THEN Raise("stop_wsl")
          ELSE pc' = "get_vhd" /\ failed_at' = failed_at
    /\ UNCHANGED <<clock, schedVars, stopVars, localVars, health_ok,
                   end_reason, countVars, leaked,
                   auxVars,
                   twinVars, cmdVars>>

\* get_docker_vhd_path (lines 56-71) and lines 191-195: step 6 begins.
rmt_get_vhd ==
    /\ pc = "get_vhd"
    /\ steps' = Append(steps, 6)
    /\ \E isfile \in BOOLEAN :
          IF isfile
          THEN vhd_left' = 1 /\ pc' = "optimize"
          ELSE vhd_left' = 0 /\ pc' = "start_wsl"
    /\ UNCHANGED <<clock, schedVars, stopVars, ret, proc_idx, attempt,
                   retry_delay, count_before, count_after, removed,
                   poll_elapsed, issued, health_ok, failed_at, end_reason,
                   countVars, leaked,
                   auxVars,
                   twinVars, cmdVars>>

\* lines 195-201: one iteration of the loop over vhd_paths.
rmt_optimize ==
    /\ pc = "optimize"
    /\ issued' = Inc(issued, "optimize")
    /\ \E r \in CmdResults :
          IF run_command(r).raised
          THEN /\ Raise("optimize")
               /\ vhd_left' = vhd_left
          ELSE /\ vhd_left' = vhd_left - 1
               /\ pc' = IF vhd_left' = 0 THEN "start_wsl" ELSE "optimize"
               /\ failed_at' = failed_at
    /\ UNCHANGED <<clock, schedVars, stopVars, ret, proc_idx, attempt,
                   retry_delay, count_before, count_after, removed,
                   poll_elapsed, steps, health_ok, end_reason, countVars,
                   leaked,
                   auxVars,
                   twinVars, cmdVars>>

\* lines 203-211: step 7, Start-Service WslService.
rmt_start_wsl ==
    /\ pc = "start_wsl"
    /\ steps' = Append(steps, 7)
    /\ issued' = Inc(issued, "start_wsl")
    /\ \E r \in CmdResults :
          IF run_command(r).raised
          THEN Raise("start_wsl") /\ poll_elapsed' = poll_elapsed
          ELSE pc' = "poll" /\ poll_elapsed' = 0 /\ failed_at' = failed_at
    /\ UNCHANGED <<clock, schedVars, stopVars, ret, proc_idx, attempt,
                   retry_delay, count_before, count_after, removed,
                   vhd_left, health_ok, end_reason, countVars, leaked,
                   auxVars,
                   twinVars, cmdVars>>

\* rmt_poll without the break of line 224: a Running status is logged and
\* the loop goes on until the timeout.
rmt_poll_nobreak ==
    /\ pc = "poll"
    /\ \E r \in CmdResults, status \in {"Running", "Stopped"},
          d \in {QuerySeconds, CmdTimeout} :
          IF run_command(r).raised
          THEN /\ pc' = "wsl_check" /\ poll_elapsed' = 0
               /\ poll_exit' = "error" /\ poll_sleeps' = poll_sleeps
          ELSE IF poll_elapsed + d > timeout
          THEN /\ pc' = "wsl_check" /\ poll_elapsed' = 0
               /\ poll_exit' = IF status = "Running" THEN "running"
                               ELSE "timeout"
               /\ poll_sleeps' = poll_sleeps
          ELSE /\ pc' = "poll" /\ poll_elapsed' = poll_elapsed + d + 1
               /\ poll_exit' = IF status = "Running" THEN "running"
                               ELSE poll_exit
               /\ poll_sleeps' = poll_sleeps + 1
    /\ polls' = polls + 1
    /\ UNCHANGED <<clock, schedVars, stopVars, ret, proc_idx, attempt,
                   retry_delay, count_before, count_after, removed,
                   vhd_left, steps, issued, health_ok, failed_at,
                   end_reason, countVars, leaked, sdd_calls, first_check,
                   kdp_calls,
                   sddAux, kill_log, count_failed,
                   twinVars, cmdVars>>

\* rmt_poll without the deadline test of lines 226-230: only a Running
\* status or a failed query ends the loop.
rmt_poll_no_deadline ==
    /\ pc = "poll"
    /\ \E r \in CmdResults, status \in {"Running", "Stopped"},
          d \in {QuerySeconds, CmdTimeout} :
          IF run_command(r).raised
          THEN /\ pc' = "wsl_check" /\ poll_elapsed' = 0
               /\ poll_exit' = "error" /\ poll_sleeps' = poll_sleeps
          ELSE IF status = "Running"
          THEN /\ pc' = "wsl_check" /\ poll_elapsed' = 0
               /\ poll_exit' = "running" /\ poll_sleeps' = poll_sleeps
          ELSE /\ pc' = "poll" /\ poll_elapsed' = poll_elapsed + d + 1
               /\ poll_exit' = poll_exit /\ poll_sleeps' = poll_sleeps + 1
    /\ polls' = polls + 1
    /\ UNCHANGED <<clock, schedVars, stopVars, ret, proc_idx, attempt,
                   retry_delay, count_before, count_after, removed,
                   vhd_left, steps, issued, health_ok, failed_at,
                   end_reason, countVars, leaked, sdd_calls, first_check,
                   kdp_calls, sddAux, kill_log, count_failed,
                   twinVars, cmdVars>>

\* lines 212-230: one iteration of the wait loop.  The status query takes d
\* seconds (QuerySeconds, or as long as run_command allows); the loop ends when the query raises, when the status is
\* Running, or when more than timeout seconds have elapsed.
rmt_poll ==
    /\ pc = "poll"
    /\ \E r \in CmdResults, status \in {"Running", "Stopped"},
          d \in {QuerySeconds, CmdTimeout} :
          IF run_command(r).raised
          THEN /\ pc' = "wsl_check" /\ poll_elapsed' = 0
               /\ poll_exit' = "error" /\ poll_sleeps' = poll_sleeps
          ELSE IF status = "Running"
          THEN /\ pc' = "wsl_check" /\ poll_elapsed' = 0
               /\ poll_exit' = "running" /\ poll_sleeps' = poll_sleeps
          ELSE IF poll_elapsed + d > timeout
          THEN /\ pc' = "wsl_check" /\ poll_elapsed' = 0
               /\ poll_exit' = "timeout" /\ poll_sleeps' = poll_sleeps
          ELSE /\ pc' = "poll" /\ poll_elapsed' = poll_elapsed + d + 1
               /\ poll_exit' = poll_exit /\ poll_sleeps' = poll_sleeps + 1
    /\ polls' = polls + 1
    /\ UNCHANGED <<clock, schedVars, stopVars, ret, proc_idx, attempt,
                   retry_delay, count_before, count_after, removed,
                   vhd_left, steps, issued, health_ok, failed_at,
                   end_reason, countVars, leaked, sdd_calls, first_check,
                   kdp_calls,
                   sddAux, kill_log, count_failed,
                   twinVars, cmdVars>>

\* rmt_wsl_check in a pipeline that gives the run up when the wait loop has
\* timed out.
rmt_wsl_check_abort ==
    /\ pc = "wsl_check"
    /\ IF poll_exit = "timeout"
       THEN /\ Return("wsl_timeout")
            /\ issued' = issued
       ELSE /\ issued' = Inc(issued, "wsl_l")
            /\ \E r \in CmdResults : run_command(r).raised \in BOOLEAN
            /\ pc' = "post_start"
            /\ polls' = 0
            /\ poll_sleeps' = 0
            /\ UNCHANGED <<localVars, end_reason, active, runs_finished,
                           sddAux, kill_log, count_failed, twinVars>>
    /\ UNCHANGED <<clock, schedVars, stopVars, steps, health_ok, failed_at,
                   runs_started, waits, leaked, fault_logged, runAux,
                   cmdVars>>

\* lines 232-247: wsl.exe -l; an exception is caught and logged.
rmt_wsl_check ==
    /\ pc = "wsl_check"
    /\ issued' = Inc(issued, "wsl_l")
    /\ \E r \in CmdResults : run_command(r).raised \in BOOLEAN
    /\ pc' = "post_start"
    /\ polls' = 0
    /\ poll_sleeps' = 0
    /\ UNCHANGED <<clock, schedVars, stopVars, localVars, steps, health_ok,
                   failed_at, end_reason, countVars, leaked,
                   runAux, sddAux, kill_log, count_failed,
                   twinVars, cmdVars>>

\* lines 249-253: step 8 begins, start_docker_desktop is called.
rmt_post_start ==
    /\ pc = "post_start"
    /\ steps' = Append(steps, 8)
    /\ pc' = "sdd_enter"
    /\ ret' = "post_check"
    /\ sdd_calls' = sdd_calls + 1
    /\ UNCHANGED <<clock, schedVars, stopVars, proc_idx, attempt,
                   retry_delay, count_before, count_after, removed,
                   vhd_left, poll_elapsed, issued, health_ok, failed_at,
                   end_reason, countVars, leaked,
                   first_check, poll_exit, kdp_calls, callAux,
                   twinVars, cmdVars>>

\* lines 254-263: the health check after the launch; on failure
\* kill_docker_processes is called.
rmt_post_check ==
    /\ pc = "post_check"
    /\ issued' = Inc(issued, "docker_info")
    /\ \E r \in CmdResults :
          IF check_docker_running(r)
          THEN /\ health_ok' = TRUE
               /\ pc' = "rmt_done"
               /\ ret' = ret
               /\ proc_idx' = proc_idx
               /\ first_check' = "ok"
               /\ kdp_calls' = kdp_calls
          ELSE /\ health_ok' = health_ok
               /\ pc' = "kill"
               /\ ret' = "post_start2"
               /\ proc_idx' = 1
               /\ first_check' = "failed"
               /\ kdp_calls' = kdp_calls + 1
    /\ UNCHANGED <<clock, schedVars, stopVars, attempt, retry_delay,
                   count_before, count_after, removed, vhd_left,
                   poll_elapsed, steps, failed_at, end_reason, countVars,
                   leaked,
                   sdd_calls, poll_exit, callAux,
                   twinVars, cmdVars>>

\* line 264: the additional start_docker_desktop.
rmt_post_start2 ==
    /\ pc = "post_start2"
    /\ pc' = "sdd_enter"
    /\ ret' = "post_check2"
    /\ sdd_calls' = sdd_calls + 1
    /\ UNCHANGED <<clock, schedVars, stopVars, proc_idx, attempt,
                   retry_delay, count_before, count_after, removed,
                   vhd_left, poll_elapsed, histVars, countVars, leaked,
                   first_check, poll_exit, kdp_calls, callAux,
                   twinVars, cmdVars>>

\* rmt_post_check2 in a pipeline that keeps restarting Docker Desktop until
\* the daemon answers.
rmt_post_check2_again ==
    /\ pc = "post_check2"
    /\ issued' = Inc(issued, "docker_info")
    /\ \E r \in CmdResults :
          IF check_docker_running(r)
          THEN /\ health_ok' = TRUE
               /\ pc' = "rmt_done"
               /\ ret' = ret
               /\ proc_idx' = proc_idx
               /\ kdp_calls' = kdp_calls
          ELSE /\ health_ok' = health_ok
               /\ pc' = "kill"
               /\ ret' = "post_start2"
               /\ proc_idx' = 1
               /\ kdp_calls' = kdp_calls + 1
    /\ UNCHANGED <<clock, schedVars, stopVars, attempt, retry_delay,
                   count_before, count_after, removed, vhd_left,
                   poll_elapsed, steps, failed_at, end_reason, countVars,
                   leaked, sdd_calls, first_check, poll_exit, callAux,
                   twinVars, cmdVars>>

\* lines 265-272: the last health check; both outcomes are only logged.
rmt_post_check2 ==
    /\ pc = "post_check2"
    /\ issued' = Inc(issued, "docker_info")
    /\ \E r \in CmdResults :
          health_ok' = (health_ok \/ check_docker_running(r))
    /\ pc' = "rmt_done"
    /\ UNCHANGED <<clock, schedVars, stopVars, localVars, steps, failed_at,
                   end_reason, countVars, leaked,
                   auxVars,
                   twinVars, cmdVars>>

\* line 274 and the normal return.
rmt_done ==
    /\ pc = "rmt_done"
    /\ Return("completed")
    /\ UNCHANGED <<clock, schedVars, stopVars, steps, issued, health_ok,
                   failed_at, runs_started, waits, leaked, fault_logged,
                   runAux,
                   cmdVars>>

\* rmt_except with a handler that logs and re-raises.
rmt_except_reraise ==
    /\ pc = "rmt_except"
    /\ pc' = "svc_raised"
    /\ leaked' = "Exception"
    /\ UNCHANGED <<clock, schedVars, stopVars, localVars, histVars,
                   countVars,
                   auxVars,
                   twinVars, cmdVars>>

\* lines 275-276: except Exception: the error is logged and the function
\* returns normally.
rmt_except ==
    /\ pc = "rmt_except"
    /\ Return("exception")
    /\ UNCHANGED <<clock, schedVars, stopVars, steps, issued, health_ok,
                   failed_at, runs_started, waits, leaked, fault_logged,
                   runAux,
                   cmdVars>>

\* --------------------------------------------------- start_docker_desktop
\* The value start_docker_desktop returns: the return statements of lines
\* 354 (executable missing) and 391 (daemon responsive) have no value, and
\* after line 408 (retries used up) the function ends without a return
\* statement, so the caller receives None in every case.
sdd_value(outcome) == "None"

\* A return of start_docker_desktop.
sdd_return(outcome) ==
    /\ pc' = "sdd_exit"
    /\ sdd_outcome' = outcome
    /\ sdd_result' = sdd_value(outcome)
    /\ UNCHANGED <<ret, attempt, retry_delay,
                   twinVars, cmdVars>>

\* start_docker_desktop is back in its caller, which discards the returned
\* value (lines 155, 253 and 264); its locals die.
sdd_exit ==
    /\ pc = "sdd_exit"
    /\ pc' = ret
    /\ ret' = "none"
    /\ attempt' = 0
    /\ retry_delay' = 0
    /\ sdd_launches' = 0
    /\ launch_waits' = << >>
    /\ sdd_slept' = 0
    /\ seen' = FALSE
    /\ sdd_outcome' = "none"
    /\ sdd_result' = "unset"
    /\ UNCHANGED <<clock, schedVars, stopVars, proc_idx, count_before,
                   count_after, removed, vhd_left, poll_elapsed, histVars,
                   countVars, leaked, runAux, polls, poll_sleeps, kill_log,
                   count_failed,
                   twinVars, cmdVars>>

\* sdd_enter with the path looked at only after a first ShellExecute.
sdd_enter_launch_first ==
    /\ pc = "sdd_enter"
    /\ sdd_launches' = sdd_launches + 1
    /\ \E exists \in BOOLEAN :
          IF exists
          THEN /\ pc' = "sdd_sleep"
               /\ ret' = ret
               /\ attempt' = 0
               /\ retry_delay' = initial_retry_delay
               /\ UNCHANGED <<sdd_outcome, sdd_result>>
          ELSE sdd_return("missing")
    /\ UNCHANGED <<clock, schedVars, stopVars, proc_idx, count_before,
                   count_after, removed, vhd_left, poll_elapsed, histVars,
                   countVars, leaked, runAux, polls, poll_sleeps, kill_log,
                   count_failed, launch_waits, sdd_slept, seen,
                   twinVars, cmdVars>>

\* lines 343-354: initialisation and the check of the executable path.
sdd_enter ==
    /\ pc = "sdd_enter"
    /\ \E exists \in BOOLEAN :
          IF exists
          THEN /\ pc' = "sdd_while"
               /\ ret' = ret
               /\ attempt' = 0
               /\ retry_delay' = initial_retry_delay
               /\ UNCHANGED <<sdd_outcome, sdd_result>>
          ELSE sdd_return("missing")
    /\ UNCHANGED <<clock, schedVars, stopVars, proc_idx, count_before,
                   count_after, removed, vhd_left, poll_elapsed, histVars,
                   countVars, leaked,
                   runAux, polls, poll_sleeps, kill_log, count_failed,
                   sdd_launches, launch_waits, sdd_slept, seen,
                   twinVars, cmdVars>>

\* line 356: the loop condition; lines 406-408 when the retries are used up.
sdd_while ==
    /\ pc = "sdd_while"
    /\ IF attempt < max_retries
       THEN /\ pc' = "sdd_launch"
            /\ UNCHANGED <<ret, attempt, retry_delay, sdd_outcome,
                           sdd_result>>
       ELSE sdd_return("exhausted")
    /\ UNCHANGED <<clock, schedVars, stopVars, proc_idx, count_before,
                   count_after, removed, vhd_left, poll_elapsed, histVars,
                   countVars, leaked,
                   runAux, polls, poll_sleeps, kill_log, count_failed,
                   sdd_launches, launch_waits, sdd_slept, seen,
                   twinVars, cmdVars>>

\* lines 357-372: ShellExecute; its exception is caught and logged.
sdd_launch ==
    /\ pc = "sdd_launch"
    /\ issued' = Inc(issued, "launch")
    /\ \E shell_ok \in BOOLEAN : pc' = "sdd_sleep"
    /\ sdd_launches' = sdd_launches + 1
    /\ UNCHANGED <<clock, schedVars, stopVars, localVars, steps, health_ok,
                   failed_at, end_reason, countVars, leaked,
                   runAux, polls, poll_sleeps, kill_log, count_failed,
                   launch_waits, sdd_slept, seen, sdd_outcome, sdd_result,
                   twinVars, cmdVars>>

\* line 374: time.sleep(retry_delay).
sdd_sleep ==
    /\ pc = "sdd_sleep"
    /\ pc' = "sdd_tasklist"
    /\ launch_waits' = Append(launch_waits, retry_delay)
    /\ sdd_slept' = sdd_slept + retry_delay
    /\ UNCHANGED <<clock, schedVars, stopVars, localVars, histVars,
                   countVars, leaked,
                   runAux, polls, poll_sleeps, kill_log, count_failed,
                   sdd_launches, seen, sdd_outcome, sdd_result,
                   twinVars, cmdVars>>

\* lines 375-399: tasklist (no timeout, not inside a try).
sdd_tasklist ==
    /\ pc = "sdd_tasklist"
    /\ \E t \in {"found", "not_found", "launch_error"} :
          /\ seen' = (seen \/ t = "found")
          /\ IF t = "launch_error"
             THEN Raise("tasklist")
             ELSE /\ pc' = IF t = "found" THEN "sdd_info" ELSE "sdd_retry"
                  /\ failed_at' = failed_at
    /\ UNCHANGED <<clock, schedVars, stopVars, localVars, steps, issued,
                   health_ok, end_reason, countVars, leaked, runAux, polls,
                   poll_sleeps, kill_log, count_failed, sdd_launches,
                   launch_waits, sdd_slept, sdd_outcome, sdd_result,
                   twinVars, cmdVars>>

\* lines 385-395: docker info; return when the daemon answers.
sdd_info ==
    /\ pc = "sdd_info"
    /\ issued' = Inc(issued, "docker_info")
    /\ \E r \in CmdResults :
          IF run_command(r).raised
          THEN /\ pc' = "sdd_retry"
               /\ UNCHANGED <<ret, attempt, retry_delay, sdd_outcome,
                              sdd_result>>
          ELSE sdd_return("responsive")
    /\ UNCHANGED <<clock, schedVars, stopVars, proc_idx, count_before,
                   count_after, removed, vhd_left, poll_elapsed, steps,
                   health_ok, failed_at, end_reason, countVars, leaked,
                   runAux, polls, poll_sleeps, kill_log, count_failed,
                   sdd_launches, launch_waits, sdd_slept, seen,
                   twinVars, cmdVars>>

\* sdd_retry with a constant delay, as src/old/docker_maintenance_service.py
\* has it.
sdd_retry_constant ==
    /\ pc = "sdd_retry"
    /\ attempt' = attempt + 1
    /\ retry_delay' = retry_delay
    /\ pc' = "sdd_while"
    /\ sdd_slept' = sdd_slept + retry_delay'
    /\ UNCHANGED <<clock, schedVars, stopVars, ret, proc_idx, count_before,
                   count_after, removed, vhd_left, poll_elapsed, histVars,
                   countVars, leaked, runAux, polls, poll_sleeps, kill_log,
                   count_failed, sdd_launches, launch_waits, seen,
                   sdd_outcome, sdd_result,
                   twinVars, cmdVars>>

\* lines 400-405: count the attempt, double the delay, sleep.
sdd_retry ==
    /\ pc = "sdd_retry"
    /\ attempt' = attempt + 1
    /\ retry_delay' = retry_delay * 2
    /\ pc' = "sdd_while"
    /\ sdd_slept' = sdd_slept + retry_delay'
    /\ UNCHANGED <<clock, schedVars, stopVars, ret, proc_idx, count_before,
                   count_after, removed, vhd_left, poll_elapsed, histVars,
                   countVars, leaked,
                   runAux, polls, poll_sleeps, kill_log, count_failed,
                   sdd_launches, launch_waits, seen, sdd_outcome, sdd_result,
                   twinVars, cmdVars>>

\* ------------------------------------------------------- specifications
run_maintenance_tasks ==
    \/ rmt_enter
    \/ rmt_pre_check
    \/ rmt_pre_sleep
    \/ rmt_pre_recheck
    \/ rmt_count_before
    \/ rmt_prune
    \/ rmt_count_after
    \/ kill_docker_processes
    \/ kdp_return
    \/ rmt_stop_wsl
    \/ rmt_get_vhd
    \/ rmt_optimize
    \/ rmt_start_wsl
    \/ rmt_poll
    \/ rmt_wsl_check
    \/ rmt_post_start
    \/ rmt_post_check
    \/ rmt_post_start2
    \/ rmt_post_check2
    \/ rmt_done
    \/ rmt_except

start_docker_desktop ==
    \/ sdd_enter
    \/ sdd_while
    \/ sdd_launch
    \/ sdd_sleep
    \/ sdd_tasklist
    \/ sdd_info
    \/ sdd_retry
    \/ sdd_exit

SvcStop ==
    \/ SvcStop_pending
    \/ SvcStop_flag
    \/ SvcStop_SetEvent

main ==
    \/ main_while
    \/ main_compute
    \/ main_signaled
    \/ main_timeout
    \/ main_exit

Next ==
    \/ Tick
    \/ SvcStop
    \/ SvcDoRun_report
    \/ SvcDoRun_run
    \/ main
    \/ run_maintenance_tasks
    \/ start_docker_desktop

Spec == Init /\ [][Next]_vars

\* The service thread keeps executing: whenever it can take a step (a wait
\* that may return, a command that has ended, the next statement) it
\* eventually does.  Nothing is assumed about the stop handler or about the
\* passing of time.
ServiceThread ==
    \/ SvcDoRun_report
    \/ SvcDoRun_run
    \/ main
    \/ run_maintenance_tasks
    \/ start_docker_desktop

SpecFair == Spec /\ WF_vars(ServiceThread)

\* The hypothesis "an exception leaks out of a pipeline run": an exception
\* leaves run_maintenance_tasks although lines 275-276 catch Exception,
\* either a BaseException that "except Exception" does not match
\* (KeyboardInterrupt, SystemExit) or an Exception raised by the handler
\* itself.  main has no handler; SvcDoRun (line 107) catches only Exception.
LeakKinds == {"Exception", "BaseException"}

Leak ==
    /\ pc \in RunPCs
    /\ \E k \in LeakKinds :
          /\ leaked' = k
          /\ pc' = IF k = "Exception" THEN "svc_except" ELSE "svc_raised"
    /\ active' = active - 1
    /\ UNCHANGED <<clock, schedVars, stopVars, localVars, histVars,
                   runs_started, runs_finished, waits, fault_logged,
                   auxVars,
                   twinVars, cmdVars>>

\* SvcDoRun_except with a handler that logs the fault and goes on with the
\* schedule.
SvcDoRun_except_swallow ==
    /\ pc = "svc_except"
    /\ fault_logged' = TRUE
    /\ pc' = "main_compute"
    /\ UNCHANGED <<clock, schedVars, stopVars, localVars, histVars, active,
                   runs_started, runs_finished, waits, leaked,
                   auxVars,
                   twinVars, cmdVars>>

\* SvcDoRun, lines 107-109: log "Exception in SvcDoRun" and re-raise.
SvcDoRun_except ==
    /\ pc = "svc_except"
    /\ fault_logged' = TRUE
    /\ pc' = "svc_raised"
    /\ UNCHANGED <<clock, schedVars, stopVars, localVars, histVars, active,
                   runs_started, runs_finished, waits, leaked,
                   auxVars,
                   twinVars, cmdVars>>

NextLeak ==
    \/ Next
    \/ Leak
    \/ SvcDoRun_except

SpecLeak == Init /\ [][NextLeak]_vars

\* ------------------------------------------------------ command machine
\* One call of run_command seen from inside, for the three implementations
\* of the repository: the service variant (src/service, lines 306-326; the
\* old variant has the same code), the root variant
\* (src/docker_maintenance_service.py, lines 80-95) and the one-shot script
\* (src/script/docker_maintenance_script.py, lines 42-85).  Time is counted
\* in seconds from the call.
Variants == {"service", "root", "script"}

Commands == {"docker info", "powershell Optimize-VHD"}

\* What the external program does: exit with code 0 or 1 at some moment,
\* run forever with its output pipe open, run forever after closing its
\* output, or fail to start.
Children == {"exits0", "exits1", "hangs_open", "hangs_closed", "no_launch"}

\* Which sink of the logger raises when it is used: none, the first one the
\* logger touches or the second one.
Sinks == {"none", "first", "second"}

MaxCmdClock == 2 * CmdTimeout + 1

\* The logger of each variant, called with a sink that may raise.
\* write_local_log (service and old variant, lines 36-43) has its whole body
\* inside try/except Exception.  log_event of the root variant (lines
\* 115-124) calls servicemanager.LogInfoMsg before its try and ReportEvent
\* inside it.  log of the script (lines 12-15) prints without a try.
logger(v, sink) ==
    IF v = "service" THEN "returned"
    ELSE IF v = "root"
    THEN (IF sink = "first" THEN "raised" ELSE "returned")
    ELSE (IF sink = "none" THEN "returned" ELSE "raised")

\* run_command without the timeout argument of subprocess.run, as the root
\* variant has it.
HasTimeout_script(v) == v = "script"

\* subprocess.run(..., timeout=30) in the service variant (line 314) and
\* proc.wait(timeout=30) in the script (line 73); the root variant calls
\* subprocess.run without a timeout (line 90).
HasTimeout(v) == v \in {"service", "script"}

\* The exception message of a failed call: the service and the root variant
\* raise Exception(error_msg) with the command text in it; the script
\* re-raises TimeoutExpired, which names the command, and raises
\* Exception(msg) for a non-zero exit.
cmd_message(v, r, c) ==
    IF ~run_command(r).raised THEN << >>
    ELSE IF r = "launch_error" THEN <<"OSError">>
    ELSE IF r = "timeout" /\ v = "script" THEN <<"TimeoutExpired", c>>
    ELSE <<run_command(r).msg, c>>

InitCmd ==
    /\ InitService
    /\ clock = 0
    /\ variant \in Variants
    /\ cmd \in Commands
    /\ child \in Children
    /\ sink_raises \in Sinks
    /\ cmd_pc = "call"
    /\ child_state = "none"
    /\ out_open = FALSE
    /\ cmd_clock = 0
    /\ wait_from = 0
    /\ log_result = "none"
    /\ cmd_outcome = "none"
    /\ cmd_result = "none"
    /\ cmd_msg = << >>
    /\ cdr_result = "none"

\* run_command ends with outcome r of the execution.
cmd_finish(r) ==
    /\ cmd_pc' = "done"
    /\ cmd_outcome' = r
    /\ cmd_result' = IF run_command(r).raised THEN "raised" ELSE "returned"
    /\ cmd_msg' = cmd_message(variant, r, cmd)

\* The first statement of run_command logs the command (service line 307,
\* root line 84, script line 43); an exception of the logger leaves
\* run_command.
cmd_log ==
    /\ cmd_pc = "call"
    /\ log_result' = logger(variant, sink_raises)
    /\ IF log_result' = "raised"
       THEN /\ cmd_pc' = "done"
            /\ cmd_outcome' = "log_error"
            /\ cmd_result' = "raised"
            /\ cmd_msg' = <<"logging failed">>
       ELSE /\ cmd_pc' = "spawn"
            /\ UNCHANGED <<cmd_outcome, cmd_result, cmd_msg>>
    /\ UNCHANGED <<serviceVars, variant, cmd, child, child_state, out_open,
                   cmd_clock, wait_from, sink_raises, cdr_result>>

\* The child process is created (inside subprocess.run, or by Popen at
\* script lines 52-57); a program that cannot be started raises OSError.
cmd_spawn ==
    /\ cmd_pc = "spawn"
    /\ IF child = "no_launch"
       THEN /\ cmd_finish("launch_error")
            /\ UNCHANGED <<child_state, out_open, wait_from>>
       ELSE /\ child_state' = "running"
            /\ out_open' = TRUE
            /\ wait_from' = cmd_clock
            /\ cmd_pc' = IF variant = "script" THEN "read" ELSE "wait"
            /\ UNCHANGED <<cmd_outcome, cmd_result, cmd_msg>>
    /\ UNCHANGED <<serviceVars, variant, cmd, child, cmd_clock, sink_raises,
                   log_result, cdr_result>>

\* The external program exits; its output pipe is closed with it.
child_exit ==
    /\ child \in {"exits0", "exits1"}
    /\ child_state = "running"
    /\ child_state' = "exited"
    /\ out_open' = FALSE
    /\ UNCHANGED <<serviceVars, variant, cmd, child, cmd_pc, cmd_clock,
                   wait_from, sink_raises, log_result, cmd_outcome,
                   cmd_result, cmd_msg, cdr_result>>

\* The external program closes its output and keeps running.
child_close ==
    /\ child = "hangs_closed"
    /\ child_state = "running"
    /\ out_open
    /\ out_open' = FALSE
    /\ UNCHANGED <<serviceVars, variant, cmd, child, cmd_pc, child_state,
                   cmd_clock, wait_from, sink_raises, log_result,
                   cmd_outcome, cmd_result, cmd_msg, cdr_result>>

\* The wait of run_command has a timeout and it has elapsed.
TimedOut ==
    /\ cmd_pc = "wait"
    /\ HasTimeout(variant)
    /\ cmd_clock - wait_from >= CmdTimeout

\* A second passes while run_command is blocked on the running child; a
\* wait whose timeout has elapsed returns before more time passes.
cmd_tick ==
    /\ cmd_pc \in {"read", "wait"}
    /\ child_state = "running"
    /\ cmd_pc = "read" => out_open
    /\ ~TimedOut
    /\ cmd_clock < MaxCmdClock
    /\ cmd_clock' = cmd_clock + 1
    /\ UNCHANGED <<serviceVars, variant, cmd, child, cmd_pc, child_state,
                   out_open, wait_from, sink_raises, log_result,
                   cmd_outcome, cmd_result, cmd_msg, cdr_result>>

\* script lines 62-70: "for raw in proc.stdout" ends when the pipe reaches
\* end of file; only then proc.wait(timeout=30) is called.
cmd_read_eof ==
    /\ cmd_pc = "read"
    /\ ~out_open
    /\ cmd_pc' = "wait"
    /\ wait_from' = cmd_clock
    /\ UNCHANGED <<serviceVars, variant, cmd, child, child_state, out_open,
                   cmd_clock, sink_raises, log_result, cmd_outcome,
                   cmd_result, cmd_msg, cdr_result>>

\* The child has exited: the exit code decides (service lines 320-326, root
\* lines 91-95, script lines 80-85).
cmd_wait_exit ==
    /\ cmd_pc = "wait"
    /\ child_state = "exited"
    /\ cmd_finish(IF child = "exits0" THEN "exit0" ELSE "nonzero")
    /\ UNCHANGED <<serviceVars, variant, cmd, child, child_state, out_open,
                   cmd_clock, wait_from, sink_raises, log_result,
                   cdr_result>>

\* TimeoutExpired: the child is killed and the failure is raised (service
\* lines 316-319, script lines 74-78).
cmd_wait_timeout ==
    /\ TimedOut
    /\ child_state = "running"
    /\ child_state' = "killed"
    /\ out_open' = FALSE
    /\ cmd_finish("timeout")
    /\ UNCHANGED <<serviceVars, variant, cmd, child, cmd_clock, wait_from,
                   sink_raises, log_result, cdr_result>>

\* check_docker_running (service lines 134-140) around a finished
\* run_command("docker", "info").
cmd_check_docker_running ==
    /\ cmd_pc = "done"
    /\ variant = "service"
    /\ cmd = "docker info"
    /\ cmd_outcome \in CmdResults
    /\ cdr_result' = IF check_docker_running(cmd_outcome) THEN "True"
                     ELSE "False"
    /\ cmd_pc' = "checked"
    /\ UNCHANGED <<serviceVars, variant, cmd, child, child_state, out_open,
                   cmd_clock, wait_from, sink_raises, log_result,
                   cmd_outcome, cmd_result, cmd_msg>>

NextCmd ==
    \/ cmd_log
    \/ cmd_spawn
    \/ child_exit
    \/ child_close
    \/ cmd_tick
    \/ cmd_read_eof
    \/ cmd_wait_exit
    \/ cmd_wait_timeout
    \/ cmd_check_docker_running

SpecCmd == InitCmd /\ [][NextCmd]_vars

\* ================================================================ claims
PipelineOrder == <<1, 2, 3, 4, 5, 6, 7, 8>>

IsPrefix(s, t) == Len(s) <= Len(t) /\ s = SubSeq(t, 1, Len(s))

ExitPCs == {"main_exit", "svc_done"}

\* C1: when the stop signal (SetEvent, after is_running := False) is raised
\* while the scheduler is blocked in WaitForSingleObject, the only step the
\* scheduler takes from the wait is the break out of the main loop, and no
\* run of run_maintenance_tasks is started after the signal.
C1_StopInWaitExits ==
    [][signal_phase = "wait" =>
          /\ runs_started' = runs_started
          /\ pc' \in {"main_blocked"} \cup ExitPCs]_vars

C1_Witness ==
    signal_phase = "wait" /\ flag_phase = "wait" /\ pc = "svc_done"
    /\ runs_finished >= 1

\* C2: a stop signal raised while a run is in progress does not abort the
\* run: the steps of the stop handler leave the run's state alone and the
\* run ends for a reason of its own (it completed, the pre-flight check
\* failed, or one of its operations raised); after the run has returned the
\* scheduler starts no further run and leaves the main loop.
StopRaisedInRun == flag_phase = "run" \/ signal_phase = "run"

RunEndedOnItsOwn ==
    \/ end_reason = "completed" /\ steps = PipelineOrder /\ failed_at = "none"
    \/ end_reason = "preflight" /\ steps = <<1>> /\ failed_at = "none"
       /\ ~health_ok
    \/ end_reason = "exception" /\ failed_at # "none"

C2_StopInRunCompletes ==
    /\ [](StopRaisedInRun /\ pc = "rmt_returned" => RunEndedOnItsOwn)
    /\ [](StopRaisedInRun => pc \in RunPCs \cup {"rmt_returned"} \cup ExitPCs)
    /\ [][StopRaisedInRun => runs_started' = runs_started]_vars
    /\ [][stop_pc' # stop_pc => UNCHANGED <<pc, localVars, histVars>>]_vars

C2_Witness ==
    flag_phase = "run" /\ signal_phase = "run" /\ pc = "rmt_returned"
    /\ end_reason = "completed"

\* C3: the wake time computed for the current time now is the earliest
\* instant with time of day 02:00 that is strictly later than now: today's
\* 02:00 when now is before 02:00, tomorrow's when now is 02:00 or later;
\* the wait is longer than 0 and at most 24 hours.
C3_NextWake ==
    pc = "main_blocked" =>
        LET midnight == now - (now % DayTicks)
        IN  /\ scheduled_time % DayTicks = SchedTicks
            /\ scheduled_time > now
            /\ \A t \in (now + 1) .. (scheduled_time - 1) :
                  t % DayTicks # SchedTicks
            /\ now % DayTicks < SchedTicks =>
                  scheduled_time = midnight + SchedTicks
            /\ now % DayTicks >= SchedTicks =>
                  scheduled_time = midnight + DayTicks + SchedTicks
            /\ scheduled_time - now > 0
            /\ scheduled_time - now <= DayTicks

C3_Witness ==
    /\ pc = "main_blocked"
    /\ now % DayTicks = SchedTicks
    /\ scheduled_time = now + DayTicks

C5_OneRunAtATime ==
    /\ [](active <= 1)
    /\ [](active = 1 <=> pc \in RunPCs)
    /\ [][runs_started' # runs_started => active = 0 /\ active' = 1]_vars
    /\ [][stop_pc' # stop_pc =>
              runs_started' = runs_started /\ active' = active]_vars

C5_Witness ==
    active = 1 /\ runs_started = 2 /\ runs_finished = 1 /\ stop_pc = "signaled"

\* C6: the steps a run performs are a prefix of the sequence 1..8, in that
\* order; once an operation of a step has failed fatally, the run performs
\* no further step and issues no further operation.
C6_StepsArePrefix ==
    /\ [](IsPrefix(steps, PipelineOrder))
    /\ [](end_reason = "preflight" => steps = <<1>>)
    /\ [](failed_at # "none" => pc \in {"rmt_except", "rmt_returned"})
    /\ [][failed_at # "none" /\ pc \in RunPCs =>
              steps' = steps /\ issued' = issued]_vars

C6_Witness ==
    pc = "rmt_returned" /\ failed_at = "stop_wsl" /\ steps = <<1, 2, 3, 4, 5>>

\* C7: when the prune command fails the run has performed exactly steps 1-3
\* and ends: prune was issued once, no kill, no service stop, no
\* optimization, no service start and no further operation (so no launch of
\* Docker Desktop) is issued after the failure.
C7_PruneFailureHalts ==
    /\ [](failed_at = "prune" =>
              /\ steps = <<1, 2, 3>>
              /\ issued["prune"] = 1
              /\ issued["kill"] = 0
              /\ issued["stop_wsl"] = 0
              /\ issued["optimize"] = 0
              /\ issued["start_wsl"] = 0
              /\ pc \in {"rmt_except", "rmt_returned"})
    /\ [][failed_at = "prune" /\ pc \in RunPCs =>
              issued' = issued /\ pc' \in {"rmt_except", "rmt_returned"}]_vars

C7_Witness ==
    pc = "rmt_returned" /\ failed_at = "prune" /\ end_reason = "exception"
    /\ steps = <<1, 2, 3>>

\* C8: a run whose pre-flight health check failed before and after the
\* launch attempt ends there, having issued no container count, prune, kill,
\* service stop, optimization or service start; and prune is issued only
\* when a health check of the same run has succeeded before.
C8_PreflightGate ==
    /\ [](end_reason = "preflight" =>
              /\ steps = <<1>>
              /\ ~health_ok
              /\ \A o \in {"count", "prune", "kill", "stop_wsl", "optimize",
                           "start_wsl"} : issued[o] = 0)
    /\ [][issued'["prune"] > issued["prune"] => health_ok]_vars

C8_Witness ==
    pc = "rmt_returned" /\ end_reason = "preflight" /\ issued["launch"] > 0
    /\ issued["docker_info"] = 2

\* C9: whatever operation of a run fails (non-zero exit, timeout, launch
\* error, exception of a helper), the exception is caught at the boundary of
\* run_maintenance_tasks and the call returns normally to the scheduler.
C9_NoEscape ==
    /\ [](leaked = "none" /\ pc # "svc_raised")
    /\ [](failed_at # "none" /\ pc \notin RunPCs =>
              pc = "rmt_returned" /\ end_reason = "exception")
    /\ [][pc = "rmt_except" =>
              pc' \in {"rmt_except", "rmt_returned"}]_vars

C9_Witness ==
    pc = "rmt_returned" /\ end_reason = "exception" /\ failed_at = "tasklist"

\* C10 as stated: after an exception has leaked out of a pipeline run the
\* scheduler is not terminated.
C10_SchedulerSurvivesLeak ==
    leaked # "none" => pc \notin {"svc_except", "svc_raised"}

\* C10 amended: an exception that leaks out of a pipeline run terminates the
\* scheduler: it propagates through main to SvcDoRun, which logs it (when it
\* is an Exception) and re-raises it; no wake time is computed, no wait is
\* entered and no run is started after the leak.
C10_LeakTerminates ==
    /\ [](leaked # "none" => pc \in {"svc_except", "svc_raised"})
    /\ [](leaked = "Exception" /\ pc = "svc_raised" => fault_logged)
    /\ [][leaked # "none" =>
              /\ waits' = waits
              /\ runs_started' = runs_started
              /\ scheduled_time' = scheduled_time]_vars

C10_Witness ==
    leaked = "Exception" /\ pc = "svc_raised" /\ fault_logged
    /\ runs_started = 2

\* The two parts of a run that ensure that the daemon is running: the
\* pre-flight part (lines 148-164) and the post-flight part (lines 249-272).
InPreflight == steps = <<1>>

InPostflight == Len(steps) > 0 /\ steps[Len(steps)] = 8

C13_MissingExecutable ==
    /\ [](pc = "sdd_exit" /\ sdd_outcome = "missing" =>
              /\ sdd_launches = 0
              /\ launch_waits = << >>
              /\ sdd_slept = 0
              /\ attempt = 0
              /\ ~seen)
    /\ [][sdd_outcome' = "missing" /\ sdd_outcome # "missing" =>
              pc = "sdd_enter" /\ pc' = "sdd_exit"
              /\ issued' = issued]_vars

C13_Witness ==
    pc = "sdd_exit" /\ sdd_outcome = "missing" /\ ret = "post_check"

\* C14: when the status query of the k-th poll answers Running, the wait
\* loop ends with that poll: k queries and k - 1 sleeps of 1 s have been
\* made, no query and no sleep follows, and the run goes on with the WSL
\* operational check.
C14_RunningStopsPolling ==
    /\ [](poll_exit # "none" => pc # "poll")
    /\ [](pc = "wsl_check" /\ poll_exit = "running" =>
              polls >= 1 /\ poll_sleeps = polls - 1)
    /\ [][pc = "poll" /\ poll_exit' = "running" =>
              /\ pc' = "wsl_check"
              /\ polls' = polls + 1
              /\ poll_sleeps' = poll_sleeps]_vars
    /\ [][pc = "wsl_check" /\ pc' # pc => pc' = "post_start"]_vars

C14_Witness ==
    pc = "wsl_check" /\ poll_exit = "running" /\ polls = 3
    /\ poll_sleeps = 2

\* C15: when optimizing a backing file fails, the failure is only logged
\* and the run continues: the run in which an Optimize-VHD command failed
\* still performs step 7 (Start-Service WslService) and step 8 (the
\* post-flight launch and daemon check).
C15_OptimizeFailureContinues ==
    pc = "rmt_returned" /\ failed_at = "optimize" =>
        /\ IsPrefix(<<1, 2, 3, 4, 5, 6, 7, 8>>, steps)
        /\ issued["start_wsl"] > 0

\* C16: when the wait loop ends because WslService has not reported Running
\* within the timeout, the run is not aborted: it goes on with the WSL
\* operational check and step 8, where start_docker_desktop is invoked and,
\* unless tasklist raises inside start_docker_desktop, the daemon health
\* check is made.
C16_TimeoutNotFatal ==
    /\ [][pc = "poll" /\ poll_exit' = "timeout" =>
              pc' = "wsl_check" /\ failed_at' = failed_at]_vars
    /\ [](poll_exit = "timeout" => failed_at \in {"none", "tasklist"})
    /\ [](poll_exit = "timeout" /\ pc = "rmt_returned" =>
              /\ steps = PipelineOrder
              /\ sdd_calls >= 1
              /\ \/ first_check # "none" /\ end_reason = "completed"
                 \/ failed_at = "tasklist" /\ end_reason = "exception")

C16_Witness ==
    pc = "rmt_returned" /\ poll_exit = "timeout" /\ first_check = "ok"
    /\ end_reason = "completed"

C19_BothKillsAttempted ==
    /\ [](pc = "kdp_exit" =>
              Len(kill_log) = 2 /\ ret \in {"stop_wsl", "post_start2"})
    /\ [][pc = "kill" =>
              /\ pc' \in {"kill", "kdp_exit"}
              /\ failed_at' = failed_at]_vars
    /\ [][pc = "kdp_exit" /\ pc' # pc =>
              pc' = ret /\ failed_at' = failed_at]_vars

C19_Witness ==
    pc = "kdp_exit" /\ kill_log = <<TRUE, FALSE>> /\ ret = "stop_wsl"

\* C20: get_docker_container_count never raises: when the listing fails
\* with a timeout or a launch error it returns 0, and the run goes on to
\* the prune step (and, for the count after the prune, to step 4).
C20_CountNeverRaises ==
    /\ [](pc = "prune" /\ count_failed =>
              /\ count_before = 0
              /\ failed_at = "none"
              /\ steps = <<1, 2>>)
    /\ [](pc = "kill" /\ count_failed => count_after = 0)
    /\ [][pc = "count_before" /\ pc' # pc =>
              pc' = "prune" /\ failed_at' = failed_at]_vars
    /\ [][pc = "count_after" /\ pc' # pc =>
              pc' = "kill" /\ failed_at' = failed_at]_vars

C20_Witness ==
    pc = "prune" /\ count_failed /\ count_before = 0 /\ issued["count"] = 1

\* C21: the container counts do not steer the run.  A second run that is
\* given the same command results but other values of
\* get_docker_container_count, before and after the prune, is at every
\* moment at the same position as the run itself, so both issue the same
\* commands and perform the same steps.
C21_CountsDoNotSteer ==
    /\ twin_pc # "none" => twin_pc = pc
    /\ pc \in {"prune", "count_after"} =>
           twin_pc # "none" \/ failed_at # "none"

C21_Witness ==
    pc = "kill" /\ twin_pc = "kill" /\ removed = 1 /\ count_after = 0

\* C22: check_docker_running never propagates an error: for every outcome
\* of "docker info" (exit code 0, non-zero exit, timeout, failure to
\* launch) it returns a boolean, and the boolean is True exactly when the
\* command exited with code 0.
C22_HealthCheckTotal ==
    /\ cmd_pc = "checked" => cdr_result \in {"True", "False"}
    /\ cdr_result = "True" =>
           cmd_outcome = "exit0" /\ child = "exits0"
    /\ cdr_result = "False" =>
           cmd_outcome \in {"nonzero", "timeout", "launch_error"}
    /\ cmd_pc = "done" /\ variant = "service" /\ cmd = "docker info" =>
           ENABLED cmd_check_docker_running

C22_Witness ==
    cmd_pc = "checked" /\ cdr_result = "False" /\ cmd_outcome = "timeout"

\* C24: in the service variant run_command never blocks beyond its 30 s
\* timeout: a command that has not exited by then is killed and
\* run_command raises "Command timeout expired" with the command text; the
\* output is returned only after an exit with code 0, and a non-zero exit
\* always raises.
C24_RunCommandBounded ==
    variant = "service" =>
        /\ cmd_clock <= CmdTimeout
        /\ cmd_outcome = "timeout" =>
               /\ cmd_result = "raised"
               /\ cmd_msg = <<"Command timeout expired", cmd>>
               /\ child_state = "killed"
               /\ cmd_clock = CmdTimeout
        /\ cmd_result = "returned" =>
               cmd_outcome = "exit0" /\ child_state = "exited"
        /\ cmd_outcome = "nonzero" =>
               cmd_result = "raised" /\ cmd_msg = <<"Command failed", cmd>>
        /\ cmd_pc \in {"done", "checked"} => cmd_result # "none"

C24_Witness ==
    variant = "service" /\ cmd_pc = "done" /\ child = "hangs_open"
    /\ cmd_outcome = "timeout" /\ cmd_clock = CmdTimeout

\* C25: a failure of the logging sink never fails the operation that logs:
\* the logger of the service variant (write_local_log) and the logger of
\* the root variant (log_event) return normally whatever sink raises.
C25_LoggerNeverFails ==
    variant \in {"service", "root"} =>
        log_result # "raised" /\ cmd_outcome # "log_error"

\* C30: in the script variant, run_command on a command that never exits
\* and never closes its output ends with a timeout failure after 30 s and
\* kills the process; it is not blocked beyond the timeout.
C30_ScriptTimesOut ==
    variant = "script" /\ child = "hangs_open" /\ cmd_clock > CmdTimeout =>
        /\ cmd_pc = "done"
        /\ cmd_outcome = "timeout"
        /\ child_state = "killed"

\* C23: the post-flight step performs at most one additional
\* kill-then-relaunch cycle: per run it calls kill_docker_processes at most
\* once and start_docker_desktop at most twice, the second call only after
\* the first health check failed and the kill was done; when the last
\* health check fails too the run ends without a further cycle.
C23_OneExtraCycle ==
    /\ kdp_calls <= 1
    /\ InPostflight =>
           /\ sdd_calls <= 2
           /\ sdd_calls = 2 => kdp_calls = 1 /\ first_check = "failed"
           /\ kdp_calls = 1 => first_check = "failed"
           /\ first_check = "failed" /\ pc \in {"rmt_done", "rmt_returned"}
              /\ failed_at = "none" /\ leaked = "none" =>
                  sdd_calls = 2 /\ kdp_calls = 1

C23_Witness ==
    /\ pc = "rmt_returned" /\ end_reason = "completed"
    /\ first_check = "failed" /\ sdd_calls = 2 /\ kdp_calls = 1

\* C26: the wait for WslService goes on polling, one status query per
\* second, until the status Running is observed or the 60 s timeout has
\* elapsed; nothing else, in particular a failed status query, ends the
\* wait loop.
C26_PollUntilRunningOrTimeout ==
    /\ pc = "wsl_check" => poll_exit \in {"running", "timeout"}
    /\ pc = "poll" => poll_sleeps = polls /\ poll_exit = "none"

\* C27: every pipeline run terminates.  While the service thread keeps
\* executing (every external command exits or exceeds its timeout), a run
\* that has been started returns: the launch loop of start_docker_desktop
\* makes at most max_retries iterations and the wait loop for WslService is
\* left once more than timeout seconds have elapsed.
C27_RunTerminates ==
    /\ [](attempt <= max_retries /\ sdd_launches <= max_retries)
    /\ [](pc = "poll" => poll_elapsed <= timeout + 1)
    /\ [](polls <= timeout + 1)
    /\ (pc \in RunPCs) ~> (pc = "rmt_returned")

C27_Witness ==
    /\ pc = "sdd_exit" /\ ret = "post_check" /\ sdd_outcome = "exhausted"
    /\ poll_exit = "timeout" /\ attempt = max_retries

\* C28: once the stop signal has been raised the scheduler eventually
\* reaches its terminal state (main has returned and SvcDoRun is over), the
\* pipeline run in progress being completed first; the terminal state is
\* never left, and no pipeline run and no wait starts in it.
C28_StopLeadsToStopped ==
    /\ (stop_pc = "signaled") ~> (pc = "svc_done")
    /\ [][(pc = "main_exit" \/ pc = "svc_done") =>
              /\ pc' \in ExitPCs
              /\ runs_started' = runs_started
              /\ waits' = waits
              /\ active' = active]_vars
    /\ [](pc = "svc_done" => active = 0 /\ ~is_running)

C28_Witness ==
    pc = "svc_done" /\ stop_pc = "signaled" /\ signal_phase = "run"

C31_ServiceRestarted ==
    pc = "rmt_returned" /\ issued["stop_wsl"] > 0 /\ failed_at # "stop_wsl"
        => issued["start_wsl"] > 0

\* C32: a finished run that killed the Docker processes (step 4) has called
\* start_docker_desktop afterwards at least once, whatever the service
\* stop, the optimization and the service start did.
C32_RelaunchAfterKill ==
    pc = "rmt_returned" /\ (\E i \in 1 .. Len(steps) : steps[i] = 4)
        => sdd_calls >= 1

\* C33: once the stop signal has been raised no pipeline run is started, in
\* every interleaving of the stop handler with the service thread, a stop
\* between ReportServiceStatus(SERVICE_RUNNING) and the immediate run
\* included.
C33_NoRunAfterStop ==
    [][stop_pc = "signaled" => runs_started' = runs_started]_vars

\* C34: a run triggered by the schedule never starts before the wake time
\* the scheduler waited for, and the loop never computes the same wake time
\* twice: each daily occurrence of the scheduled hour triggers at most one
\* run, however short the run is.
C34_OneRunPerOccurrence ==
    /\ [][pc = "main_blocked" /\ pc' = "rmt_enter" =>
              clock >= scheduled_time]_vars
    /\ [][pc = "main_compute" /\ pc' = "main_blocked" =>
              scheduled_time' # scheduled_time]_vars

\* C35: start_docker_desktop sleeps only between a launch and its
\* verification; a call whose max_retries attempts all fail has slept
\* 5 + 10 + 20 = 35 seconds when it gives up, with no backoff sleep after
\* the last failed attempt.
C35_SleepsOnlyBeforeVerification ==
    sdd_outcome = "exhausted" =>
        /\ launch_waits = <<initial_retry_delay, 2 * initial_retry_delay,
                            4 * initial_retry_delay>>
        /\ sdd_slept = 7 * initial_retry_delay

\* C36: the logged number of removed containers, count before minus count
\* after, is never negative, whichever of the two container listings
\* succeed or fail (a failed listing yields 0).
C36_RemovedNotNegative ==
    removed >= 0

====
